---- MODULE Spec2Model ----
(***************************************************************************)
(* Model of BinaryParser (binaryParser.h and its C source file): a program *)
(* that reads packed big-endian 12-bit samples from a file, keeps the      *)
(* largest NumberOfValuesToPrint of them in a statically allocated,        *)
(* ascending linked list and the last NumberOfValuesToPrint of them in a   *)
(* circular buffer, and prints both.                                       *)
(*                                                                         *)
(* The capacity is scaled down: the source fixes NumberOfValuesToPrint at  *)
(* 32 and the wrap mask at 0x1F = 32 - 1; the model keeps that relation    *)
(* (a power of two and the mask one below it) at 2^LogCapacity.            *)
(* The machine is little endian, as binaryParser.h:9 assumes.              *)
(***************************************************************************)
EXTENDS Integers, Sequences, FiniteSets, TLC

\* ---------------------------------------------------------------- bounds
LogCapacity == 2
MaxBytes == 11
MaxArgc == 4
\* the byte values the input file is built from
ByteSet == {0, 18}

\* ------------------------------------------------------------- constants
Lower12BitMask == 4095
NumberOfValuesToPrint == 2 ^ LogCapacity
WrapMask == NumberOfValuesToPrint - 1
NoNext == 0 - 1
Slots == 0 .. (NumberOfValuesToPrint - 1)

VARIABLES
    pc,                  \* position of main / parseAccData
    argc,                \* number of command line arguments (argv[0] included)
    inputFile,           \* "unset", "open", "null", "closed"
    outputFile,          \* "unset", "open", "null", "closed"
    exitStatus,          \* return value of main, 1 while running
    stdout,              \* messages printed with printf, in order
    maxList,             \* Slots -> [value, next]
    listSize,
    listHead,
    lastValuesBuffer,    \* Slots -> value
    lastValuesWriteIdx,
    totalValueCount,
    inputBytes,          \* contents of the input file
    filePos,             \* number of bytes of it already read
    inputValues,         \* the 4 bytes of the inputWordUnion, lowest address first
    size,                \* parseAccData's local: result of the last fread
    maxValuesOut,        \* values written by printMaxValues, in order
    lastValuesOut,       \* values written by printLastValues, in order
    pushed,              \* history: the samples handed to listInsert, in order
    peekLog,             \* history: the values of listSize at the calls of listPeek
    lastPath,            \* history: the path the last listInsert took
    stored,              \* history: the samples stored in lastValuesBuffer, in order
    lastScan,            \* history: nodes read by the last position scan, and listSize then
    indexLog             \* history: the <<array, index>> pairs used as subscripts

vars == <<pc, argc, inputFile, outputFile, exitStatus, stdout, maxList,
          listSize, listHead, lastValuesBuffer, lastValuesWriteIdx,
          totalValueCount, inputBytes, filePos, inputValues, size,
          maxValuesOut, lastValuesOut, pushed, peekLog, lastPath, stored,
          lastScan, indexLog>>

mainVars == <<argc, inputFile, outputFile, exitStatus, stdout>>
listVars == <<maxList, listSize, listHead>>
bufferVars == <<lastValuesBuffer, lastValuesWriteIdx>>
readVars == <<inputBytes, filePos, inputValues, size>>
outVars == <<maxValuesOut, lastValuesOut>>
pushVars == <<pushed, peekLog, lastPath, stored, lastScan>>
histVars == <<pushVars, indexLog>>

\* ------------------------------------------------------- bit operations
RECURSIVE BitAnd(_, _)
BitAnd(a, b) ==
    IF a = 0 \/ b = 0 THEN 0
    ELSE (a % 2) * (b % 2) + 2 * BitAnd(a \div 2, b \div 2)

ShiftRight(a, k) == a \div (2 ^ k)

\* the unsigned int that overlays the four bytes on a little-endian machine
Word(bytes) == bytes[1] + 256 * bytes[2] + 65536 * bytes[3] + 16777216 * bytes[4]

\* the four bytes of an unsigned int
BytesOf(w) == <<w % 256, (w \div 256) % 256, (w \div 65536) % 256, (w \div 16777216) % 256>>

ZeroWord == <<0, 0, 0, 0>>

\* variant: the bytes are left in file order
ntoh24BitNoSwap(bytes) == bytes

\* ntoh24Bit: swap the first and the third byte
ntoh24Bit(bytes) == <<bytes[3], bytes[2], bytes[1], bytes[4]>>

\* ntohs on a little-endian machine: swap the two bytes of a 16-bit value
ntohs(h) == ((h % 256) * 256) + ((h \div 256) % 256)

\* (unsigned short int) cast
ToUShort(w) == w % 65536

\* ----------------------------------------------------------------- fread
\* fread(&twoValues[0], 1, 3, inputFile) after the memset: the bytes that
\* land in the union, and the count returned
BytesLeft == Len(inputBytes) - filePos
FreadCount == IF BytesLeft >= 3 THEN 3 ELSE BytesLeft
FreadBytes ==
    [i \in 1..4 |-> IF i <= FreadCount THEN inputBytes[filePos + i] ELSE 0]

\* ------------------------------------------------------- the top-N list
listPeek == maxList[listHead].value

\* variant: the index returned is that of the new head
listRemoveReturnsNewHead ==
    [maxList |-> [maxList EXCEPT ![listHead].next = NoNext],
     listHead |-> maxList[listHead].next,
     listSize |-> listSize - 1,
     index |-> maxList[listHead].next]

\* variant: the head is unlinked but the size is not decremented
listRemoveKeepsSize ==
    [maxList |-> [maxList EXCEPT ![listHead].next = NoNext],
     listHead |-> maxList[listHead].next,
     listSize |-> listSize,
     index |-> listHead]

\* listRemove: unlink the head; the result carries the freed index
listRemove ==
    [maxList |-> [maxList EXCEPT ![listHead].next = NoNext],
     listHead |-> maxList[listHead].next,
     listSize |-> listSize - 1,
     index |-> listHead]

\* variant: the comparison of the early return is inverted
RejectValueInverted(value, smallestValue) ==
    value >= smallestValue /\ listSize = NumberOfValuesToPrint

\* variant: the early return does not look at the size
RejectValueAnySize(value, smallestValue) ==
    value <= smallestValue

\* variant: a full list admits every value
RejectValueNever(value, smallestValue) ==
    FALSE

\* the early return of listInsert
RejectValue(value, smallestValue) ==
    value <= smallestValue /\ listSize = NumberOfValuesToPrint

\* variant: the scan passes the nodes of equal value
ScanStopStrict(nodeValue, value) == nodeValue > value

\* variant: the scan stops at the first node that is not larger
ScanStopReversed(nodeValue, value) == nodeValue <= value

\* the break condition of the position scan
ScanStop(nodeValue, value) == nodeValue >= value

\* the while loop of listInsert: the final <<nodeIdx, prevIdx>>
RECURSIVE Scan(_, _, _, _)
Scan(ml, value, nodeIdx, prevIdx) ==
    IF nodeIdx = NoNext THEN <<nodeIdx, prevIdx>>
    ELSE IF ScanStop(ml[nodeIdx].value, value) THEN <<nodeIdx, prevIdx>>
    ELSE Scan(ml, value, ml[nodeIdx].next, nodeIdx)

\* variant: the predecessor is relinked also when the list was empty
LinkAlways(r, ml, nodeIdx, prevIdx) ==
    IF nodeIdx = r.listHead /\ r.listSize # 0
    THEN [maxList |-> [ml EXCEPT ![r.index].next = r.listHead],
          listHead |-> r.index,
          listSize |-> r.listSize + 1]
    ELSE LET ml2 == [ml EXCEPT ![r.index].next = ml[prevIdx].next]
         IN [maxList |-> [ml2 EXCEPT ![prevIdx].next = r.index],
             listHead |-> r.listHead,
             listSize |-> r.listSize + 1]

\* the linking step of listInsert, on the state r left by the slot choice
Link(r, ml, nodeIdx, prevIdx) ==
    IF nodeIdx = r.listHead /\ r.listSize # 0
    THEN [maxList |-> [ml EXCEPT ![r.index].next = r.listHead],
          listHead |-> r.index,
          listSize |-> r.listSize + 1]
    ELSE LET ml2 == [ml EXCEPT ![r.index].next = ml[prevIdx].next]
         IN [maxList |-> IF r.listSize # 0
                         THEN [ml2 EXCEPT ![prevIdx].next = r.index]
                         ELSE ml2,
             listHead |-> r.listHead,
             listSize |-> r.listSize + 1]

\* the nodes the while loop of listInsert reads
RECURSIVE ScanVisited(_, _, _)
ScanVisited(ml, value, nodeIdx) ==
    IF nodeIdx = NoNext THEN {}
    ELSE IF ScanStop(ml[nodeIdx].value, value) THEN {nodeIdx}
    ELSE {nodeIdx} \cup ScanVisited(ml, value, ml[nodeIdx].next)

\* the subscripts of maxList the linking step uses
LinkUsed(r, nodeIdx, prevIdx) ==
    IF nodeIdx = r.listHead /\ r.listSize # 0
    THEN {r.index}
    ELSE {r.index, prevIdx}

\* listInsert with the peeked minimum made explicit
InsertResult(value, smallestValue) ==
    IF RejectValue(value, smallestValue)
    THEN [maxList |-> maxList, listHead |-> listHead, listSize |-> listSize,
          path |-> "rejected", used |-> {listHead},
          scan |-> [visited |-> 0, size |-> listSize]]
    ELSE LET r == IF listSize = NumberOfValuesToPrint
                  THEN listRemove
                  ELSE [maxList |-> maxList, listHead |-> listHead,
                        listSize |-> listSize, index |-> listSize]
             ml == [r.maxList EXCEPT ![r.index].value = value]
             pos == Scan(ml, value, r.listHead, r.listHead)
             linked == Link(r, ml, pos[1], pos[2])
         IN [maxList |-> linked.maxList, listHead |-> linked.listHead,
             listSize |-> linked.listSize,
             path |-> IF listSize = NumberOfValuesToPrint THEN "evicted" ELSE "filled",
             used |-> {listHead, r.index}
                        \cup ScanVisited(ml, value, r.listHead)
                        \cup LinkUsed(r, pos[1], pos[2]),
             scan |-> [visited |-> Cardinality(ScanVisited(ml, value, r.listHead)),
                       size |-> r.listSize]]

\* the subscripts of maxList a call of listInsert uses
listInsertUsed(value) ==
    {<<"maxList", i>> : i \in InsertResult(value, listPeek).used}

listInsert(value) ==
    LET res == InsertResult(value, listPeek)
    IN /\ maxList' = res.maxList
       /\ listHead' = res.listHead
       /\ listSize' = res.listSize
       /\ pushed' = Append(pushed, value)
       /\ peekLog' = peekLog \cup {listSize}
       /\ lastPath' = res.path
       /\ lastScan' = res.scan

\* ------------------------------------------------- the circular buffer
\* variant: the index is masked but not incremented
NextWriteIdxNoAdvance(idx) == BitAnd(idx, WrapMask)

\* variant: the index is incremented but not wrapped
NextWriteIdxNoWrap(idx) == idx + 1

\* the increment of the write index, wrapping around
NextWriteIdx(idx) == BitAnd(idx + 1, WrapMask)

\* store one sample in the circular buffer and hand it to the list
StoreAndInsert(twelveBitValue) ==
    /\ lastValuesBuffer' = [lastValuesBuffer EXCEPT ![lastValuesWriteIdx] = twelveBitValue]
    /\ lastValuesWriteIdx' = NextWriteIdx(lastValuesWriteIdx)
    /\ stored' = Append(stored, twelveBitValue)
    /\ indexLog' = indexLog \cup {<<"lastValuesBuffer", lastValuesWriteIdx>>}
                            \cup listInsertUsed(twelveBitValue)
    /\ listInsert(twelveBitValue)

\* ------------------------------------------------------------ the output
\* the loop of printMaxValues: n values read by following next from idx
RECURSIVE WalkList(_, _, _)
WalkList(ml, idx, n) ==
    IF n = 0 THEN <<>>
    ELSE <<ml[idx].value>> \o WalkList(ml, ml[idx].next, n - 1)

\* the subscripts of maxList the loop of printMaxValues uses
RECURSIVE WalkUsed(_, _, _)
WalkUsed(ml, idx, n) ==
    IF n = 0 THEN {}
    ELSE {idx} \cup WalkUsed(ml, ml[idx].next, n - 1)

\* variant: the read always starts at the write cursor
LastReadStartAtCursor == lastValuesWriteIdx

\* where printLastValues starts to read, and how many values it prints
LastReadStart ==
    IF totalValueCount >= NumberOfValuesToPrint THEN lastValuesWriteIdx ELSE 0
LastReadCount ==
    IF totalValueCount >= NumberOfValuesToPrint
    THEN NumberOfValuesToPrint ELSE totalValueCount

\* the loop of printLastValues: j values read from readIdx on, wrapping
RECURSIVE ReadBuffer(_, _, _)
ReadBuffer(buf, readIdx, j) ==
    IF j = 0 THEN <<>>
    ELSE <<buf[readIdx]>> \o ReadBuffer(buf, BitAnd(readIdx + 1, WrapMask), j - 1)

\* the subscripts of lastValuesBuffer the loop of printLastValues uses
RECURSIVE ReadUsed(_, _)
ReadUsed(readIdx, j) ==
    IF j = 0 THEN {}
    ELSE {readIdx} \cup ReadUsed(BitAnd(readIdx + 1, WrapMask), j - 1)

\* ------------------------------------------------------------------ main
\* the files the input can be: every byte string of at most MaxBytes bytes
InputFiles == UNION {[1..n -> ByteSet] : n \in 0..MaxBytes}

\* argv[i] is a file name only when i < argc. argv[argc] is NULL, and fopen
\* of NULL is undefined: it fails or it faults. What lies behind argv[argc]
\* is not part of argv: reading it and opening what it holds can do anything.
FopenOutcomes(i) ==
    IF i < argc THEN {"open", "null"}
    ELSE IF i = argc THEN {"null", "crash"}
    ELSE {"open", "null", "crash"}

\* static storage is zero before main runs
Init ==
    /\ pc = "start"
    /\ argc \in 1..MaxArgc
    /\ inputFile = "unset"
    /\ outputFile = "unset"
    /\ exitStatus = 1
    /\ stdout = <<>>
    /\ maxList = [i \in Slots |-> [value |-> 0, next |-> 0]]
    /\ listSize = 0
    /\ listHead = 0
    /\ lastValuesBuffer = [i \in Slots |-> 0]
    /\ lastValuesWriteIdx = 0
    /\ totalValueCount = 0
    /\ inputBytes = <<>>
    /\ filePos = 0
    /\ inputValues = ZeroWord
    /\ size = 0
    /\ maxValuesOut = <<>>
    /\ lastValuesOut = <<>>
    /\ pushed = <<>>
    /\ peekLog = {}
    /\ lastPath = "none"
    /\ stored = <<>>
    /\ lastScan = [visited |-> 0, size |-> 0]
    /\ indexLog = {}

\* the argument count check: a message, and no return
CheckArgs ==
    /\ pc = "start"
    /\ stdout' = IF argc # 3 THEN Append(stdout, "Incorrect usage") ELSE stdout
    /\ pc' = "open"
    /\ UNCHANGED <<argc, inputFile, outputFile, exitStatus>>
    /\ UNCHANGED <<listVars, bufferVars, totalValueCount, readVars, outVars, histVars>>

\* both fopen calls and the test of their results
OpenFiles ==
    /\ pc = "open"
    /\ \E rin \in FopenOutcomes(1), rout \in FopenOutcomes(2) :
         IF rin = "crash" \/ rout = "crash"
         THEN /\ pc' = "crashed"
              /\ UNCHANGED <<inputFile, outputFile, exitStatus, stdout, inputBytes>>
         ELSE /\ inputFile' = rin
              /\ outputFile' = rout
              /\ IF rin = "open"
                 THEN inputBytes' \in InputFiles
                 ELSE inputBytes' = inputBytes
              /\ IF rin = "null" \/ rout = "null"
                 THEN /\ stdout' = Append(stdout, "Error opening one of the files!")
                      /\ exitStatus' = 0 - 1
                      /\ pc' = "exit"
                 ELSE /\ pc' = "init"
                      /\ UNCHANGED <<stdout, exitStatus>>
    /\ UNCHANGED <<argc, filePos, inputValues, size>>
    /\ UNCHANGED <<listVars, bufferVars, totalValueCount, outVars, histVars>>

\* variant: the head starts as the invalid index
InitGlobalsHeadInvalid ==
    /\ pc = "init"
    /\ maxList' = [i \in Slots |-> [value |-> 0, next |-> NoNext]]
    /\ lastValuesBuffer' = [i \in Slots |-> 0]
    /\ lastValuesWriteIdx' = 0
    /\ totalValueCount' = 0
    /\ listSize' = 0
    /\ listHead' = NoNext
    /\ pc' = "parse"
    /\ UNCHANGED <<mainVars, readVars, outVars, histVars>>

\* the initialisation of the global data structures
InitGlobals ==
    /\ pc = "init"
    /\ maxList' = [i \in Slots |-> [value |-> 0, next |-> NoNext]]
    /\ lastValuesBuffer' = [i \in Slots |-> 0]
    /\ lastValuesWriteIdx' = 0
    /\ totalValueCount' = 0
    /\ listSize' = 0
    /\ listHead' = 0
    /\ pc' = "parse"
    /\ UNCHANGED <<mainVars, readVars, outVars, histVars>>

\* ---------------------------------------------------------- parseAccData
\* the memset of the union and the fread that follows it
Fread ==
    /\ inputValues' = FreadBytes
    /\ size' = FreadCount
    /\ filePos' = filePos + FreadCount
    /\ UNCHANGED inputBytes

\* the 12-bit values taken from the word
FirstValue(bytes) == BitAnd(ShiftRight(Word(bytes), 12), Lower12BitMask)
SecondValue(bytes) == BitAnd(Word(bytes), Lower12BitMask)
OddValue(bytes) == BitAnd(ShiftRight(Word(bytes), 4), Lower12BitMask)

\* the first read, before the loop
ParseStart ==
    /\ pc = "parse"
    /\ Fread
    /\ pc' = "loop"
    /\ UNCHANGED <<mainVars, listVars, bufferVars, totalValueCount, outVars, histVars>>

\* loop body, first half: byte swap, first value of the 24-bit chunk
PushFirst ==
    /\ pc = "loop"
    /\ size = 3
    /\ inputValues' = ntoh24Bit(inputValues)
    /\ StoreAndInsert(FirstValue(ntoh24Bit(inputValues)))
    /\ pc' = "second"
    /\ UNCHANGED <<mainVars, totalValueCount, inputBytes, filePos, size, outVars>>

\* loop body, second half: second value of the chunk
PushSecond ==
    /\ pc = "second"
    /\ StoreAndInsert(SecondValue(inputValues))
    /\ pc' = "reread"
    /\ UNCHANGED <<mainVars, totalValueCount, readVars, outVars>>

\* variant: the loop body does not read the next chunk
ReadNextNoRead ==
    /\ pc = "reread"
    /\ totalValueCount' = totalValueCount + 2
    /\ pc' = "loop"
    /\ UNCHANGED <<mainVars, listVars, bufferVars, readVars, outVars, histVars>>

\* variant: the loop body counts one value
ReadNextCountsOne ==
    /\ pc = "reread"
    /\ Fread
    /\ totalValueCount' = totalValueCount + 1
    /\ pc' = "loop"
    /\ UNCHANGED <<mainVars, listVars, bufferVars, outVars, histVars>>

\* end of the loop body: next read, then the count of the two values
ReadNext ==
    /\ pc = "reread"
    /\ Fread
    /\ totalValueCount' = totalValueCount + 2
    /\ pc' = "loop"
    /\ UNCHANGED <<mainVars, listVars, bufferVars, outVars, histVars>>

\* variant: any leftover byte counts as a value
HasOddValueAnyRest(sz) == sz >= 1 /\ sz < 3

\* the test for an odd number of values in the file
HasOddValue(sz) == sz = 2

\* two bytes left: one more value, the nibble is ignored
PushOdd ==
    /\ pc = "loop"
    /\ HasOddValue(size)
    /\ LET swapped == BytesOf(ntohs(ToUShort(Word(inputValues))))
       IN /\ inputValues' = swapped
          /\ StoreAndInsert(OddValue(swapped))
    /\ totalValueCount' = totalValueCount + 1
    /\ pc' = "printMax"
    /\ UNCHANGED <<mainVars, inputBytes, filePos, size, outVars>>

\* no byte or one byte left: nothing more to do
ParseReturn ==
    /\ pc = "loop"
    /\ size # 3
    /\ ~HasOddValue(size)
    /\ pc' = "printMax"
    /\ UNCHANGED <<mainVars, listVars, bufferVars, totalValueCount, readVars, outVars, histVars>>

\* ------------------------------------------------------- the print stage
\* variant: the loop counts listSize itself down
printMaxValuesCountsDown ==
    /\ pc = "printMax"
    /\ maxValuesOut' = WalkList(maxList, listHead, listSize)
    /\ listSize' = 0
    /\ indexLog' = indexLog \cup {<<"maxList", i>> : i \in WalkUsed(maxList, listHead, listSize)}
    /\ pc' = "printLast"
    /\ UNCHANGED <<mainVars, maxList, listHead, bufferVars, totalValueCount, readVars, lastValuesOut, pushVars>>

printMaxValues ==
    /\ pc = "printMax"
    /\ maxValuesOut' = WalkList(maxList, listHead, listSize)
    /\ indexLog' = indexLog \cup {<<"maxList", i>> : i \in WalkUsed(maxList, listHead, listSize)}
    /\ pc' = "printLast"
    /\ UNCHANGED <<mainVars, listVars, bufferVars, totalValueCount, readVars, lastValuesOut, pushVars>>

printLastValues ==
    /\ pc = "printLast"
    /\ lastValuesOut' = ReadBuffer(lastValuesBuffer, LastReadStart, LastReadCount)
    /\ indexLog' = indexLog \cup {<<"lastValuesBuffer", i>> : i \in ReadUsed(LastReadStart, LastReadCount)}
    /\ pc' = "close"
    /\ UNCHANGED <<mainVars, listVars, bufferVars, totalValueCount, readVars, maxValuesOut, pushVars>>

\* both fclose calls and the test of their results
CloseFiles ==
    /\ pc = "close"
    /\ \E closeInputVal \in {0, 0 - 1}, closeOutputVal \in {0, 0 - 1} :
         IF closeInputVal # 0 \/ closeOutputVal # 0
         THEN /\ stdout' = Append(stdout, "File close failed!")
              /\ exitStatus' = 0 - 1
         ELSE /\ exitStatus' = 0
              /\ UNCHANGED stdout
    /\ inputFile' = "closed"
    /\ outputFile' = "closed"
    /\ pc' = "exit"
    /\ UNCHANGED argc
    /\ UNCHANGED <<listVars, bufferVars, totalValueCount, readVars, outVars, histVars>>

Next ==
    \/ CheckArgs
    \/ OpenFiles
    \/ InitGlobals
    \/ ParseStart
    \/ PushFirst
    \/ PushSecond
    \/ ReadNext
    \/ PushOdd
    \/ ParseReturn
    \/ printMaxValues
    \/ printLastValues
    \/ CloseFiles

Spec == Init /\ [][Next]_vars

\* =================================================================
\* Properties
\* =================================================================
Range(seq) == {seq[i] : i \in DOMAIN seq}
CountIn(seq, v) == Cardinality({i \in DOMAIN seq : seq[i] = v})
Smaller(a, b) == IF a < b THEN a ELSE b
MinOfSeq(seq) == CHOOSE m \in Range(seq) : \A x \in Range(seq) : m <= x
LastOf(seq) == seq[Len(seq)]

\* the values met by walking listSize steps from listHead
ChainValues == WalkList(maxList, listHead, listSize)

\* how often v occurs among the n largest elements of seq
TopCount(seq, n, v) ==
    LET greater == Cardinality({i \in DOMAIN seq : seq[i] > v})
        room == n - greater
    IN IF room <= 0 THEN 0 ELSE Smaller(CountIn(seq, v), room)

\* the last n elements of seq
LastN(seq, n) == SubSeq(seq, Len(seq) - n + 1, Len(seq))

ParseDone ==
    \/ pc \in {"printMax", "printLast", "close"}
    \/ pc = "exit" /\ inputFile = "closed"

\* C1: after any sequence of L pushed samples the multiset of values met by
\* walking listSize steps from listHead is the multiset of the min(L, N)
\* largest pushed values, also after a value equal to the minimum of a full
\* list was rejected.
C1_TopValuesMultiset ==
    \A v \in Range(pushed) \cup Range(ChainValues) :
        CountIn(ChainValues, v)
            = TopCount(pushed, Smaller(Len(pushed), NumberOfValuesToPrint), v)

\* a full list has just rejected a value equal to its minimum
C1_Witness ==
    /\ Len(pushed) = NumberOfValuesToPrint + 1
    /\ lastPath = "rejected"
    /\ LastOf(pushed) = MinOfSeq(SubSeq(pushed, 1, NumberOfValuesToPrint))
    /\ Cardinality(Range(pushed)) > 1

\* C2: once the stream is exhausted, printLastValues emits exactly the last
\* min(L, N) pushed samples, oldest first.
C2_LastValuesInOrder ==
    pc \in {"close", "exit"} =>
        /\ Len(lastValuesOut) = Smaller(Len(pushed), NumberOfValuesToPrint)
        /\ lastValuesOut
             = LastN(pushed, Smaller(Len(pushed), NumberOfValuesToPrint))

\* the buffer has wrapped to a cursor that is not 0 and the output was written
C2_Witness ==
    /\ pc = "close"
    /\ Len(pushed) > NumberOfValuesToPrint
    /\ lastValuesWriteIdx # 0
    /\ lastValuesOut[1] # lastValuesOut[NumberOfValuesToPrint]
    /\ lastValuesOut # SubSeq(pushed, 1, NumberOfValuesToPrint)

\* C3: after every completed listInsert the values met by following next
\* from listHead are non-decreasing, so the head holds the smallest one.
C3_ChainAscending ==
    /\ \A i \in 1..(Len(ChainValues) - 1) : ChainValues[i] <= ChainValues[i + 1]
    /\ listSize >= 1 =>
         \A i \in 1..Len(ChainValues) : maxList[listHead].value <= ChainValues[i]

\* a full list has admitted a value strictly between its head and its tail
C3_Witness ==
    /\ lastPath = "evicted"
    /\ ChainValues[1] < LastOf(pushed)
    /\ LastOf(pushed) < ChainValues[NumberOfValuesToPrint]

\* C4: after L completed pushes listSize is min(L, N); the top-values
\* output has that many entries and listSize never exceeds N.
C4_ListSizeIsMin ==
    /\ listSize = Smaller(Len(pushed), NumberOfValuesToPrint)
    /\ listSize <= NumberOfValuesToPrint
    /\ pc \in {"printLast", "close"} =>
         Len(maxValuesOut) = Smaller(Len(pushed), NumberOfValuesToPrint)

\* the output was written for a list that went through an eviction
C4_Witness ==
    /\ pc = "printLast"
    /\ lastPath = "evicted"
    /\ Len(pushed) > NumberOfValuesToPrint
    /\ Len(maxValuesOut) = NumberOfValuesToPrint

\* C5: a push of a value less than or equal to the minimum of a full list
\* (a tie included) changes no slot's value or next, nor listHead, nor
\* listSize.
C5_RejectedPushIsNoOp ==
    [][(/\ pushed' # pushed
        /\ listSize = NumberOfValuesToPrint
        /\ LastOf(pushed') <= MinOfSeq(ChainValues))
       => UNCHANGED <<maxList, listHead, listSize>>]_vars

\* a full list holding different values has just rejected a value below its
\* minimum
C5_Witness ==
    /\ lastPath = "rejected"
    /\ listSize = NumberOfValuesToPrint
    /\ LastOf(pushed) < maxList[listHead].value
    /\ Cardinality(Range(ChainValues)) > 1

\* C6: an input of B bytes delivers exactly floor(8*B/12) samples: two per
\* complete 3-byte group, one more for 2 remaining bytes, none for 1.
C6_SampleCount ==
    ParseDone =>
        /\ Len(pushed) = (8 * Len(inputBytes)) \div 12
        /\ Len(pushed) = 2 * (Len(inputBytes) \div 3)
                          + (IF Len(inputBytes) % 3 = 2 THEN 1 ELSE 0)

\* the stream ended with a single leftover byte after some complete groups
C6_Witness ==
    /\ pc = "printMax"
    /\ Len(inputBytes) = 7
    /\ Len(pushed) = 4
    /\ filePos = 7

\* C7: printMaxValues and printLastValues change none of maxList, listHead,
\* listSize, lastValuesBuffer, lastValuesWriteIdx and totalValueCount, so a
\* further call right after would write the same sequence.
C7_PrintIsReadOnly ==
    [][(pc \in {"printMax", "printLast"}) =>
         /\ UNCHANGED <<maxList, listHead, listSize, lastValuesBuffer,
                        lastValuesWriteIdx, totalValueCount>>
         /\ pc = "printMax" =>
              (WalkList(maxList, listHead, listSize))' = maxValuesOut'
         /\ pc = "printLast" =>
              (ReadBuffer(lastValuesBuffer, LastReadStart, LastReadCount))'
                  = lastValuesOut']_vars

\* both sequences were written from a full list and a wrapped buffer
C7_Witness ==
    /\ pc = "close"
    /\ Len(maxValuesOut) = NumberOfValuesToPrint
    /\ Len(lastValuesOut) = NumberOfValuesToPrint
    /\ maxValuesOut # lastValuesOut
    /\ totalValueCount > NumberOfValuesToPrint

\* C8: with an argument count other than 3, or a file that cannot be
\* opened, main reports the error and ends with a failure status, without
\* calling fopen on a missing argument and without parsing or printing.
C8_BadInvocationFailsHard ==
    /\ argc # 3 =>
         \/ pc \in {"start", "open"}
         \/ /\ pc = "exit"
            /\ exitStatus = 0 - 1
            /\ inputFile = "unset"
            /\ outputFile = "unset"
    /\ (inputFile = "null" \/ outputFile = "null") =>
         /\ pc = "exit"
         /\ exitStatus = 0 - 1

ProbeValues == {0, 1, 18, 288, 4095}

RECURSIVE ChainSlots(_, _, _)
ChainSlots(ml, idx, fuel) ==
    IF idx \notin Slots \/ fuel = 0 THEN <<>>
    ELSE <<idx>> \o ChainSlots(ml, ml[idx].next, fuel - 1)

\* where following next ends after at most fuel steps
RECURSIVE ChainEnd(_, _, _)
ChainEnd(ml, idx, fuel) ==
    IF idx \notin Slots \/ fuel = 0 THEN idx
    ELSE ChainEnd(ml, ml[idx].next, fuel - 1)

\* C10: after every completed push 0 <= listSize <= N, and following next
\* from listHead visits exactly listSize pairwise-distinct slots and then
\* reaches -1; every slot outside the chain has next = -1.
C10_ChainWellFormed ==
    Len(pushed) >= 1 =>
        LET c == ChainSlots(maxList, listHead, NumberOfValuesToPrint + 1)
        IN /\ listSize \in 0..NumberOfValuesToPrint
           /\ Len(c) = listSize
           /\ ChainEnd(maxList, listHead, NumberOfValuesToPrint + 1) = NoNext
           /\ \A i, j \in DOMAIN c : i # j => c[i] # c[j]
           /\ \A i \in DOMAIN c : maxList[c[i]].next # c[i]
           /\ \A i \in Slots \ Range(c) : maxList[i].next = NoNext

\* a full list whose chain order is not the slot order, after an eviction
C10_Witness ==
    /\ lastPath = "evicted"
    /\ listSize = NumberOfValuesToPrint
    /\ listHead # 0
    /\ ChainSlots(maxList, listHead, NumberOfValuesToPrint + 1)
         # [i \in 1..NumberOfValuesToPrint |-> i - 1]
    /\ maxList[listHead].next # listHead + 1

\* a listInsert call happens in this step
PushStep == pushed' # pushed

\* 1 when the condition holds, else 0
Ind(b) == IF b THEN 1 ELSE 0

\* C11: a push of a value strictly greater than the minimum of a full list
\* removes one occurrence of that minimum (the old head), stores the new
\* value in the slot the old head occupied, links it at its ascending
\* position and leaves listSize = N: the tracked multiset is the old one
\* minus one minimum plus the new value.
C11_AdmitWhenFullEvictsHead ==
    [][(/\ PushStep
        /\ listSize = NumberOfValuesToPrint
        /\ LastOf(pushed') > MinOfSeq(ChainValues))
       => LET value == LastOf(pushed')
              oldMin == MinOfSeq(ChainValues)
          IN /\ listSize' = NumberOfValuesToPrint
             /\ maxList[listHead].value = oldMin
             /\ maxList'[listHead].value = value
             /\ \A i \in Slots \ {listHead} : maxList'[i].value = maxList[i].value
             /\ \A i \in 1..(NumberOfValuesToPrint - 1) :
                    ChainValues'[i] <= ChainValues'[i + 1]
             /\ \A v \in Range(ChainValues) \cup {value} :
                    CountIn(ChainValues', v)
                        = CountIn(ChainValues, v) - Ind(v = oldMin) + Ind(v = value)]_vars

\* a full list has evicted its head for a value that went to the tail, and
\* the new head is not the slot that was freed
C11_Witness ==
    /\ lastPath = "evicted"
    /\ Len(pushed) >= NumberOfValuesToPrint + 2
    /\ LastOf(pushed) = ChainValues[NumberOfValuesToPrint]
    /\ ChainValues[1] < LastOf(pushed)
    /\ maxList[listHead].value # LastOf(pushed)

\* the chain a push links its node into: the slots from the head on, without
\* the head when the list is full (it is evicted first)
BaseChain ==
    IF listSize = NumberOfValuesToPrint
    THEN ChainSlots(maxList, maxList[listHead].next, listSize - 1)
    ELSE ChainSlots(maxList, listHead, listSize)

\* the position of the first node of chain c whose value is >= value, and
\* Len(c) + 1 when there is none
FirstNotBelow(c, value) ==
    IF \E i \in DOMAIN c : maxList[c[i]].value >= value
    THEN CHOOSE i \in DOMAIN c :
            /\ maxList[c[i]].value >= value
            /\ \A j \in 1..(i - 1) : maxList[c[j]].value < value
    ELSE Len(c) + 1

\* the push in this step admits its value
AdmitStep ==
    /\ PushStep
    /\ \/ listSize < NumberOfValuesToPrint
       \/ LastOf(pushed') > MinOfSeq(ChainValues)

\* C12: an admitted push links the new node immediately before the first
\* chain node (from the head, after any eviction) whose value is >= the new
\* value, and after the tail when there is none; so among equal values the
\* most recently inserted one comes first.
C12_LinkedBeforeFirstNotBelow ==
    [][AdmitStep =>
         LET value == LastOf(pushed')
             base == BaseChain
             p == FirstNotBelow(base, value)
             after == ChainSlots(maxList', listHead', NumberOfValuesToPrint + 1)
         IN /\ Len(after) = Len(base) + 1
            /\ after[p] \notin Range(base)
            /\ maxList'[after[p]].value = value
            /\ \A i \in 1..(p - 1) : after[i] = base[i]
            /\ \A i \in p..Len(base) : after[i + 1] = base[i]]_vars

\* the last push was linked in the middle of the chain, right before an
\* older node of the same value
C12_Witness ==
    /\ lastPath = "evicted"
    /\ CountIn(ChainValues, LastOf(pushed)) >= 2
    /\ ChainValues[1] < LastOf(pushed)
    /\ LET c == ChainSlots(maxList, listHead, NumberOfValuesToPrint + 1)
           p == FirstNotBelow(c, LastOf(pushed))
       IN /\ p > 1
          /\ lastValuesBuffer[BitAnd(lastValuesWriteIdx + WrapMask, WrapMask)] = LastOf(pushed)
          /\ maxList[c[p + 1]].value = LastOf(pushed)

\* C13 as stated: after each sample has been processed totalValueCount
\* equals the number of samples stored in the recency buffer and the number
\* of listInsert calls.
C13_CountAfterEverySample ==
    /\ totalValueCount = Len(stored)
    /\ totalValueCount = Len(pushed)

\* C13 amended: every sample is stored in the recency buffer and handed to
\* listInsert exactly once, in the same order; totalValueCount is brought up
\* to date once per 3-byte group, after both of its samples and the next
\* read (and once for a trailing sample): it equals the number of samples
\* processed at every loop test and when parseAccData has returned, and is 1
\* or 2 behind inside a group.
C13_CountPerGroup ==
    /\ stored = pushed
    /\ (pc = "loop" \/ ParseDone) => totalValueCount = Len(pushed)
    /\ pc = "second" => totalValueCount = Len(pushed) - 1
    /\ pc = "reread" => totalValueCount = Len(pushed) - 2

\* both samples of the third group are processed and not yet counted
C13_Witness ==
    /\ pc = "reread"
    /\ Len(pushed) = 6
    /\ Len(stored) = 6
    /\ totalValueCount = 4

\* C14: a recency push stores the sample at the write cursor and then
\* advances the cursor by one modulo N: after k pushes the cursor is k mod N,
\* it stays in [0, N-1], and push k writes slot (k-1) mod N and no other.
C14_CursorIsCountModN ==
    [][/\ lastValuesWriteIdx' = Len(stored') % NumberOfValuesToPrint
       /\ lastValuesWriteIdx' \in 0..(NumberOfValuesToPrint - 1)
       /\ stored' # stored =>
            LET k == Len(stored')
                slot == (k - 1) % NumberOfValuesToPrint
            IN /\ k = Len(stored) + 1
               /\ slot = lastValuesWriteIdx
               /\ lastValuesBuffer'[slot] = LastOf(stored')
               /\ \A i \in Slots \ {slot} :
                      lastValuesBuffer'[i] = lastValuesBuffer[i]]_vars

\* the cursor has wrapped: push N + 2 went to slot 1 and replaced another
\* value there
C14_Witness ==
    /\ Len(stored) = NumberOfValuesToPrint + 2
    /\ lastValuesWriteIdx = 2
    /\ lastValuesBuffer[1] = LastOf(stored)
    /\ stored[2] # LastOf(stored)

\* the samples of a byte string from position from on (0-based), unpacked
\* as big-endian 12-bit values
RECURSIVE BigEndian12(_, _)
BigEndian12(bytes, from) ==
    LET b0 == bytes[from + 1]
        b1 == bytes[from + 2]
        b2 == bytes[from + 3]
    IN IF Len(bytes) - from >= 3
       THEN <<(b0 * 16) + (b1 \div 16), ((b1 % 16) * 256) + b2>>
                \o BigEndian12(bytes, from + 3)
       ELSE IF Len(bytes) - from = 2
       THEN <<(b0 * 16) + (b1 \div 16)>>
       ELSE <<>>

\* C15: unpacking is big-endian 12-bit: a 3-byte group (b0, b1, b2) delivers
\* b0*16 + (b1 div 16) and then (b1 mod 16)*256 + b2, a trailing 2-byte
\* group (b0, b1) delivers b0*16 + (b1 div 16), and every sample delivered
\* lies in [0, 4095].
C15_BigEndianUnpacking ==
    LET expected == BigEndian12(inputBytes, 0)
    IN /\ Len(pushed) <= Len(expected)
       /\ pushed = SubSeq(expected, 1, Len(pushed))
       /\ ParseDone => pushed = expected
       /\ \A i \in DOMAIN pushed : pushed[i] \in 0..4095

\* a file of two groups and two more bytes was unpacked into five samples
\* that show both nibbles of the middle byte
C15_Witness ==
    /\ pc = "printMax"
    /\ Len(inputBytes) = 8
    /\ SubSeq(inputBytes, 1, 3) = <<18, 18, 0>>
    /\ pushed[1] = 289
    /\ pushed[2] = 512
    /\ pushed[5] = 288

\* C16: an admitting push writes O(1) of the list: the value and next of the
\* slot that receives the new value (a slot that holds no surviving node),
\* the next of at most one other node, listHead and listSize; every other
\* value and next is unchanged and every surviving node stays in its slot.
C16_AdmitWritesConstant ==
    [][AdmitStep =>
         \E idx \in Slots \ Range(BaseChain) :
            /\ maxList'[idx].value = LastOf(pushed')
            /\ \A i \in Slots \ {idx} : maxList'[i].value = maxList[i].value
            /\ Cardinality({i \in Slots \ {idx} :
                               maxList'[i].next # maxList[i].next}) <= 1
            /\ Range(BaseChain) \cup {idx}
                 = Range(ChainSlots(maxList', listHead', NumberOfValuesToPrint + 1))]_vars

\* a full list has admitted a value as its second node: the freed slot got
\* the value and the new head got a new successor
C16_Witness ==
    /\ lastPath = "evicted"
    /\ ChainValues[1] < LastOf(pushed)
    /\ ChainValues[2] = LastOf(pushed)
    /\ ChainValues[2] < ChainValues[3]
    /\ Len(pushed) >= NumberOfValuesToPrint + 2

\* the stages of parseAccData
ParsePcs == {"parse", "loop", "second", "reread"}

\* the stages from parseAccData to the end of main, and how many stages
\* are still ahead of each at least
StagesAhead ==
    [parse |-> 7, loop |-> 6, second |-> 5, reread |-> 4,
     printMax |-> 3, printLast |-> 2, close |-> 1, exit |-> 0]

\* a bound on the steps still to take: the bytes not yet processed (those
\* left in the file and those of the chunk in the union) plus the stages
\* ahead
StepsBound ==
    (Len(inputBytes) - filePos)
        + (IF pc \in {"loop", "second", "reread"} THEN size ELSE 0)
        + StagesAhead[pc]

\* a step from parseAccData on lowers StepsBound and keeps it non-negative
StepLowersBound ==
    (pc \in DOMAIN StagesAhead /\ pc # "exit") =>
        /\ pc' \in DOMAIN StagesAhead
        /\ 0 <= StepsBound'
        /\ StepsBound' < StepsBound

\* at the loop test a full chunk leads into the loop body and anything
\* else (the stream is exhausted) leads out of parseAccData to the output
LoopTestStep ==
    pc = "loop" =>
        /\ size \in 0..3
        /\ size = 3 => pc' = "second"
        /\ size # 3 => pc' = "printMax"

\* every step from parseAccData on lowers StepsBound, which never gets
\* negative, so no run takes more steps than its first StepsBound; the loop
\* is left for the output stage as soon as a read comes back short
ParseProgress ==
    /\ [][StepLowersBound]_vars
    /\ [][LoopTestStep]_vars

\* C17 as stated: every position scan reads at most listSize nodes before it
\* stops, parseAccData ends when the stream is exhausted, and the program
\* then reaches the output stage.
C17_ScanWithinListSize ==
    /\ [](lastScan.visited <= lastScan.size)
    /\ ParseProgress

\* C17 amended: every position scan reads at most listSize nodes before it
\* stops, except on the empty list, where it reads the one slot 0 that has
\* just received the value and stops there; parseAccData ends when the
\* stream is exhausted, and the program then reaches the output stage.
C17_ParsingTerminates ==
    /\ [](\/ lastScan.visited <= lastScan.size
          \/ lastScan.size = 0 /\ lastScan.visited = 1)
    /\ ParseProgress

\* the output stage was reached after a scan that went through a whole
\* chain of N - 1 nodes
C17_Witness ==
    /\ pc = "printMax"
    /\ lastPath = "evicted"
    /\ lastScan.visited = NumberOfValuesToPrint - 1
    /\ lastScan.size = NumberOfValuesToPrint - 1
    /\ filePos = Len(inputBytes)

\* C18: every index used to read or write maxList (in listPeek, listRemove,
\* listInsert and printMaxValues) and lastValuesBuffer (write cursor and
\* readIdx) lies in [0, N-1]; -1 is never used as an array index.
C18_IndexesInRange ==
    \A e \in indexLog :
        /\ e[2] \in 0..(NumberOfValuesToPrint - 1)
        /\ e[2] # NoNext

\* parsing and printing have used every slot of both arrays, with an
\* eviction and a wrapped buffer on the way
C18_Witness ==
    /\ pc = "close"
    /\ Len(pushed) > NumberOfValuesToPrint
    /\ lastPath = "evicted"
    /\ indexLog = {<<"maxList", i>> : i \in Slots}
                     \cup {<<"lastValuesBuffer", i>> : i \in Slots}

\* main has initialised the global data structures
Initialised ==
    \/ pc \in ParsePcs \cup {"printMax", "printLast", "close"}
    \/ pc = "exit" /\ inputFile = "closed"

\* C19 as stated: once initialised, listHead is the sentinel -1 in every
\* state with listSize = 0, and a valid slot index in every state with
\* listSize >= 1.
C19_HeadSentinelWhenEmpty ==
    Initialised =>
        /\ listSize = 0 => listHead = NoNext
        /\ listSize >= 1 => listHead \in Slots

\* C19 amended: listHead is never the sentinel: it is a valid slot index in
\* every state. Initialisation sets it to 0 and it stays 0 while listSize = 0
\* (the empty tracker is told by listSize = 0 alone); with listSize >= 1 it
\* is the slot that holds the smallest tracked value.
C19_HeadAlwaysValid ==
    Initialised =>
        /\ listHead \in Slots
        /\ listHead # NoNext
        /\ listSize = 0 => listHead = 0
        /\ listSize >= 1 => maxList[listHead].value = MinOfSeq(ChainValues)

\* right after initialisation of a run that has a first chunk to push: the
\* tracker is empty, every next is the sentinel, and the head is slot 0
C19_Witness ==
    /\ pc = "loop"
    /\ size = 3
    /\ listSize = 0
    /\ listHead = 0
    /\ \A i \in Slots : maxList[i].next = NoNext

====
